---- MODULE Spec2Model ----
(***************************************************************************)
(* Savant_Lab: the gate runner (lab/savant_lab_runner.py), the ranking     *)
(* comparator (lab/baseline_compare.py) and the dashboard history          *)
(* (lab/make_dashboard.py).                                                *)
(*                                                                         *)
(* Numbers.  Elapsed times are whole time units.  A quantile is carried    *)
(* multiplied by 100, so that numpy's linear interpolation between two     *)
(* order statistics is exact.  A rate is a fraction [num, den]; a          *)
(* threshold on a rate is a percentage.  A float that may be NaN or absent *)
(* is a sequence of length 0 (absent) or 1 (the value).                    *)
(***************************************************************************)
EXTENDS Integers, Sequences, FiniteSets

VARIABLES
    \* ---- savant_lab_runner.py
    pc,             \* position of main(): smoke, hard, bench, gate, write, emit, exit, done, aborted
    thresholds,     \* thresholds.json as loaded by main()
    N_BENCH,        \* module constant read from SAVANT_BENCH_N
    FALLBACK_USED,  \* module constant: SAVANT_BASE_URL unset or blank
    idx,            \* iterations completed by the running phase's for loop
    rows,           \* local `rows` of smoke_tests / hardening_evaluate
    wire,           \* what the transport did for each request of the running phase
    ok,             \* local `ok` of smoke_tests
    errors,         \* local `errors` of hardening_evaluate / benchmark_evaluate
    lat,            \* local `lat` of benchmark_evaluate
    smoke,          \* main's `smoke`  (<<>> until smoke_tests returns)
    hard,           \* main's `hard`
    bench,          \* main's `bench`
    decision,       \* main's `decision`
    files,          \* artifacts written by this run
    stdout,         \* verdicts printed by this run
    exitCode,       \* <<>> while running, <<c>> once the process has exited
    abortReason,    \* the exception that ended main(), "" if none
    netlog,         \* every request handed to requests.request, in order
    \* ---- baseline_compare.py
    cpc,            \* position of main(): rows, summary, done, aborted
    data,           \* the dataset rows
    ci,             \* rows completed by the for loop
    metrics,        \* per-ranker metric lists
    cmpLog,         \* rerank requests issued: <<row index, transport outcome>>
    cmpOut,         \* baseline_compare.json (<<>> until written)
    cmpErr,         \* the exception that ended main(), "" if none
    \* ---- make_dashboard.py
    histFile,       \* history.json: [exists, size0, content]
    runs,           \* dashboard runs so far
    gateJson,       \* `pass` of artifacts/gate.json as the dashboard finds it
    lastEntry,      \* entry built by the most recent dashboard run
    \* ---- pure functions under test
    fnIn,           \* the inputs drawn
    fnOut           \* the results computed (<<>> until applied)

runnerVars == <<pc, thresholds, N_BENCH, FALLBACK_USED, idx, rows, wire, ok, errors,
                lat, smoke, hard, bench, decision, files, stdout, exitCode,
                abortReason, netlog>>
cmpVars == <<cpc, data, ci, metrics, cmpLog, cmpOut, cmpErr>>
dashVars == <<histFile, runs, gateJson, lastEntry>>
fnVars == <<fnIn, fnOut>>
vars == <<runnerVars, cmpVars, dashVars, fnVars>>

(***************************************************************************)
(* Bounds of the model.                                                    *)
(***************************************************************************)
MaxN == 3           \* largest SAVANT_BENCH_N explored from the benchmark call on
MaxNMain == 2       \* largest SAVANT_BENCH_N explored over a whole run of main()
MaxLat == 2         \* elapsed times are drawn from 1..MaxLat
MaxWarmup == 1      \* largest thresholds.warmup_requests explored
MaxDiscard == 1     \* largest thresholds.discard_first_n explored
MaxRows == 2        \* longest dataset explored by the comparator
MaxRuns == 203      \* dashboard runs explored
MaxLen == 3         \* longest ranking drawn for the metric functions
MaxK == 3           \* largest cut-off k drawn for the metric functions

Latencies == 1..MaxLat

(***************************************************************************)
(* Helpers.                                                                *)
(***************************************************************************)
Max(a, b) == IF a >= b THEN a ELSE b

Min(a, b) == IF a <= b THEN a ELSE b

RECURSIVE SeqSum(_)
SeqSum(s) == IF Len(s) = 0 THEN 0 ELSE s[1] + SeqSum(Tail(s))

RECURSIVE InsertSorted(_, _)
InsertSorted(s, x) ==
    IF Len(s) = 0 THEN <<x>>
    ELSE IF x <= s[1] THEN <<x>> \o s
    ELSE <<s[1]>> \o InsertSorted(Tail(s), x)

RECURSIVE Sorted(_)
Sorted(s) == IF Len(s) = 0 THEN <<>> ELSE InsertSorted(Sorted(Tail(s)), s[1])

(***************************************************************************)
(* numpy reductions used by benchmark_evaluate.                            *)
(***************************************************************************)
\* np.quantile(arr, q/100), default "linear" method, times 100.
Quantile(arr, q) ==
    IF Len(arr) = 0 THEN <<>>
    ELSE LET s == Sorted(arr)
             n == Len(s)
             pos == (n - 1) * q
             lo == (pos \div 100) + 1
             hi == IF lo < n THEN lo + 1 ELSE n
             frac == pos % 100
         IN  <<s[lo] * 100 + frac * (s[hi] - s[lo])>>

ArrMin(arr) == IF Len(arr) = 0 THEN <<>> ELSE <<Sorted(arr)[1]>>

ArrMax(arr) == IF Len(arr) = 0 THEN <<>> ELSE <<Sorted(arr)[Len(arr)]>>

\* arr.mean(): NaN (with a warning) on an empty array.
ArrMean(arr) == IF Len(arr) = 0 THEN <<>> ELSE <<[num |-> SeqSum(arr), den |-> Len(arr)]>>

\* A mutated arr.min()/arr.max(): an empty array reduces silently.
EmptyReductionRaises_silent(arr) == FALSE

\* arr.min() and arr.max() raise ValueError on a zero-size array.
EmptyReductionRaises(arr) == Len(arr) = 0

\* np.quantile on a zero-size array: IndexError or NaN, depending on the numpy build.
EmptyQuantileOutcomes == {"IndexError", "nan"}

(***************************************************************************)
(* Transport.                                                              *)
(***************************************************************************)
\* What requests.request can do: answer 200, answer another status, or raise
\* requests.RequestException (connection error, timeout).
Responses == { [kind |-> "response", status |-> 200],
               [kind |-> "response", status |-> 500],
               [kind |-> "exception", status |-> -1] }

\* A mutated _safe_request: no except clause, the exception propagates.
SafeRequest_propagates(o, dt) ==
    [raised |-> (o.kind = "exception"),
     status |-> IF o.kind = "exception" THEN 0 ELSE o.status,
     dt |-> dt]

\* _safe_request: (status, body, dt); RequestException becomes status 0.
SafeRequest(o, dt) ==
    [raised |-> FALSE,
     status |-> IF o.kind = "exception" THEN 0 ELSE o.status,
     dt |-> dt]

SMOKE_TESTS == << [method |-> "GET", path |-> "/"],
                  [method |-> "GET", path |-> "/health"],
                  [method |-> "GET", path |-> "/docs"],
                  [method |-> "GET", path |-> "/openapi.json"] >>

HARDENING_CASES == << "tiny", "5k_prompt", "control_chars", "prompt_injection_text" >>

(***************************************************************************)
(* gate() and the exit decision of main().                                 *)
(***************************************************************************)
\* thresholds.json: every key the configuration carries.  p99 is <<>> when
\* p99_s_max is not configured.
ThresholdsFile(p95, p99, err, minok, w, d) ==
    IF Len(p99) = 0
    THEN [p95_s_max |-> p95, error_rate_max |-> err, min_ok_rate_smoke |-> minok,
          warmup_requests |-> w, discard_first_n |-> d]
    ELSE [p95_s_max |-> p95, p99_s_max |-> p99[1], error_rate_max |-> err,
          min_ok_rate_smoke |-> minok, warmup_requests |-> w, discard_first_n |-> d]

\* rate <= pct/100 and rate >= pct/100, for a rate [num, den] with den > 0.
RateLe(rate, pct) == rate.num * 100 <= pct * rate.den

RateGe(rate, pct) == rate.num * 100 >= pct * rate.den

\* x <= y for a float x that may be NaN: every comparison with NaN is False.
FloatLe(x, y) == Len(x) = 1 /\ x[1] <= y

gate(thr, sm, bn, using_fallback) ==
    LET p95_ok == FloatLe(bn.p95_s, thr.p95_s_max)
        err_ok == RateLe(bn.error_rate, thr.error_rate_max)
        smoke_ok == RateGe(sm.ok_rate, thr.min_ok_rate_smoke)
    IN  [thresholds |-> thr,
         measured |-> bn,
         smoke |-> [ok_rate |-> sm.ok_rate, ok |-> sm.ok, total |-> sm.total],
         gate |-> [p95 |-> IF p95_ok THEN "PASS" ELSE "FAIL",
                   error_rate |-> IF err_ok THEN "PASS" ELSE "FAIL",
                   smoke_ok_rate |-> IF smoke_ok THEN "PASS" ELSE "FAIL"],
         pass |-> (p95_ok /\ err_ok /\ smoke_ok),
         fallback_used |-> using_fallback]

\* A mutated exit decision: the fallback escape hatch is missing.
ExitCode_nofallback(pass, fallback) == IF pass THEN 0 ELSE 1

\* main(): return (0) on pass, return (0) on fail under the fallback, SystemExit(1).
ExitCode(pass, fallback) == IF pass THEN 0 ELSE IF fallback THEN 0 ELSE 1

ARTIFACTS == {"smoke.json", "hardening.json", "benchmark.json", "gate.json"}

(***************************************************************************)
(* savant_lab_runner.py: main() and the three phases it calls.             *)
(***************************************************************************)
Request(phase, method, path) == [phase |-> phase, method |-> method, path |-> path]

\* An exception leaves main(): the interpreter prints it and exits with status 1.
Abort(reason) ==
    /\ pc' = "aborted"
    /\ abortReason' = reason
    /\ exitCode' = <<1>>

\* The dict smoke_tests returns, without its per-request rows: they go to
\* smoke.json and are read by nothing else.
SmokeOut(okCount) ==
    [ok |-> okCount, total |-> Len(SMOKE_TESTS),
     ok_rate |-> [num |-> okCount, den |-> Max(1, Len(SMOKE_TESTS))]]

\* The dict hardening_evaluate returns, without its per-request rows.
HardeningOut(errs) ==
    [errors |-> errs, N |-> Len(HARDENING_CASES),
     error_rate |-> [num |-> errs, den |-> Max(1, Len(HARDENING_CASES))]]

\* smoke_tests: one iteration of `for method, path, payload in tests`.
SmokeRequest ==
    /\ pc = "smoke"
    /\ idx < Len(SMOKE_TESTS)
    /\ \E o \in Responses, dt \in Latencies :
         LET t == SMOKE_TESTS[idx + 1]
             r == SafeRequest(o, dt)
         IN  /\ netlog' = Append(netlog, Request("smoke", t.method, t.path))
             /\ wire' = Append(wire, o)
             /\ IF r.raised
                THEN /\ Abort("RequestException")
                     /\ UNCHANGED <<idx, rows, ok>>
                ELSE /\ rows' = Append(rows, [path |-> t.path, status |-> r.status])
                     /\ ok' = IF r.status = 200 THEN ok + 1 ELSE ok
                     /\ idx' = idx + 1
                     /\ UNCHANGED <<pc, abortReason, exitCode>>
    /\ UNCHANGED <<thresholds, N_BENCH, FALLBACK_USED, errors, lat, smoke, hard, bench,
                   decision, files, stdout>>
    /\ UNCHANGED <<cmpVars, dashVars, fnVars>>

\* smoke_tests: the return statement; main() goes on to hardening_evaluate().
SmokeReturn ==
    /\ pc = "smoke"
    /\ idx = Len(SMOKE_TESTS)
    /\ smoke' = << SmokeOut(ok) >>
    /\ pc' = "hard"
    /\ idx' = 0
    /\ rows' = <<>>
    /\ wire' = <<>>
    /\ errors' = 0
    /\ UNCHANGED <<thresholds, N_BENCH, FALLBACK_USED, ok, lat, hard, bench, decision,
                   files, stdout, exitCode, abortReason, netlog>>
    /\ UNCHANGED <<cmpVars, dashVars, fnVars>>

\* hardening_evaluate: one iteration of `for name, payload in cases`.
HardeningRequest ==
    /\ pc = "hard"
    /\ idx < Len(HARDENING_CASES)
    /\ \E o \in Responses, dt \in Latencies :
         LET r == SafeRequest(o, dt)
         IN  /\ netlog' = Append(netlog, Request("hard", "POST", "/evaluate"))
             /\ wire' = Append(wire, o)
             /\ IF r.raised
                THEN /\ Abort("RequestException")
                     /\ UNCHANGED <<idx, rows, errors>>
                ELSE /\ errors' = IF r.status # 200 THEN errors + 1 ELSE errors
                     /\ rows' = Append(rows, [case |-> HARDENING_CASES[idx + 1],
                                              status |-> r.status])
                     /\ idx' = idx + 1
                     /\ UNCHANGED <<pc, abortReason, exitCode>>
    /\ UNCHANGED <<thresholds, N_BENCH, FALLBACK_USED, ok, lat, smoke, hard, bench,
                   decision, files, stdout>>
    /\ UNCHANGED <<cmpVars, dashVars, fnVars>>

\* hardening_evaluate: the return statement; main() goes on to benchmark_evaluate().
HardeningReturn ==
    /\ pc = "hard"
    /\ idx = Len(HARDENING_CASES)
    /\ hard' = << HardeningOut(errors) >>
    /\ pc' = "bench"
    /\ idx' = 0
    /\ rows' = <<>>
    /\ wire' = <<>>
    /\ errors' = 0
    /\ lat' = <<>>
    /\ UNCHANGED <<thresholds, N_BENCH, FALLBACK_USED, ok, smoke, bench, decision,
                   files, stdout, exitCode, abortReason, netlog>>
    /\ UNCHANGED <<cmpVars, dashVars, fnVars>>

\* benchmark_evaluate: one iteration of `for _ in range(N_BENCH)`.
BenchRequest ==
    /\ pc = "bench"
    /\ idx < N_BENCH
    /\ \E o \in Responses, dt \in Latencies :
         LET r == SafeRequest(o, dt)
         IN  /\ netlog' = Append(netlog, Request("bench", "POST", "/evaluate"))
             /\ wire' = Append(wire, o)
             /\ IF r.raised
                THEN /\ Abort("RequestException")
                     /\ UNCHANGED <<idx, lat, errors>>
                ELSE /\ errors' = IF r.status # 200 THEN errors + 1 ELSE errors
                     /\ lat' = Append(lat, r.dt)
                     /\ idx' = idx + 1
                     /\ UNCHANGED <<pc, abortReason, exitCode>>
    /\ UNCHANGED <<thresholds, N_BENCH, FALLBACK_USED, rows, ok, smoke, hard, bench,
                   decision, files, stdout>>
    /\ UNCHANGED <<cmpVars, dashVars, fnVars>>

\* The dict benchmark_evaluate builds from lat, errors and N_BENCH.
BenchOut(arr, errs, n) ==
    [N |-> n,
     errors |-> errs,
     error_rate |-> [num |-> errs, den |-> Max(1, n)],
     p50_s |-> Quantile(arr, 50),
     p95_s |-> Quantile(arr, 95),
     p99_s |-> Quantile(arr, 99),
     min_s |-> ArrMin(arr),
     mean_s |-> ArrMean(arr),
     max_s |-> ArrMax(arr)]

\* benchmark_evaluate after the loop: the numpy reductions and the return.
BenchReduce ==
    /\ pc = "bench"
    /\ idx >= N_BENCH
    /\ \E q \in EmptyQuantileOutcomes :
         IF Len(lat) = 0 /\ q = "IndexError"
         THEN /\ Abort("IndexError")
              /\ UNCHANGED bench
         ELSE IF EmptyReductionRaises(lat)
         THEN /\ Abort("ValueError")
              /\ UNCHANGED bench
         ELSE /\ bench' = << BenchOut(lat, errors, N_BENCH) >>
              /\ pc' = "gate"
              /\ UNCHANGED <<abortReason, exitCode>>
    /\ UNCHANGED <<thresholds, N_BENCH, FALLBACK_USED, idx, rows, wire, ok, errors, lat,
                   smoke, hard, decision, files, stdout, netlog>>
    /\ UNCHANGED <<cmpVars, dashVars, fnVars>>

\* main(): decision = gate(thresholds, smoke, bench, FALLBACK_USED).
Gate ==
    /\ pc = "gate"
    /\ decision' = << gate(thresholds, smoke[1], bench[1], FALLBACK_USED) >>
    /\ pc' = "write"
    /\ UNCHANGED <<thresholds, N_BENCH, FALLBACK_USED, idx, rows, wire, ok, errors, lat,
                   smoke, hard, bench, files, stdout, exitCode, abortReason, netlog>>
    /\ UNCHANGED <<cmpVars, dashVars, fnVars>>

\* main(): the four _write_json calls.
WriteArtifacts ==
    /\ pc = "write"
    /\ files' = files \cup ARTIFACTS
    /\ pc' = "emit"
    /\ UNCHANGED <<thresholds, N_BENCH, FALLBACK_USED, idx, rows, wire, ok, errors, lat,
                   smoke, hard, bench, decision, stdout, exitCode, abortReason, netlog>>
    /\ UNCHANGED <<cmpVars, dashVars, fnVars>>

\* main(): print(json.dumps(decision)).
EmitVerdict ==
    /\ pc = "emit"
    /\ stdout' = Append(stdout, decision[1])
    /\ pc' = "exit"
    /\ UNCHANGED <<thresholds, N_BENCH, FALLBACK_USED, idx, rows, wire, ok, errors, lat,
                   smoke, hard, bench, decision, files, exitCode, abortReason, netlog>>
    /\ UNCHANGED <<cmpVars, dashVars, fnVars>>

\* main(): the two returns and the SystemExit(1).
ExitDecision ==
    /\ pc = "exit"
    /\ exitCode' = << ExitCode(decision[1].pass, FALLBACK_USED) >>
    /\ pc' = "done"
    /\ UNCHANGED <<thresholds, N_BENCH, FALLBACK_USED, idx, rows, wire, ok, errors, lat,
                   smoke, hard, bench, decision, files, stdout, abortReason, netlog>>
    /\ UNCHANGED <<cmpVars, dashVars, fnVars>>

RunnerNext ==
    \/ SmokeRequest
    \/ SmokeReturn
    \/ HardeningRequest
    \/ HardeningReturn
    \/ BenchRequest
    \/ BenchReduce
    \/ Gate
    \/ WriteArtifacts
    \/ EmitVerdict
    \/ ExitDecision

(***************************************************************************)
(* baseline_compare.py: the metric functions.                              *)
(*                                                                         *)
(* A metric value is the exact fraction [num, den].  1/log2(i+1) is        *)
(* carried in units of 1/10000.                                            *)
(***************************************************************************)
\* 1 / np.log2(i + 1) for i = 1.., in units of 1/10000.
Discount == <<10000, 6309, 5000, 4307, 3869, 3562, 3333, 3155>>

\* dcg(ids): the sum over enumerate(ids[:k], start=1), up to position n.
RECURSIVE DcgUpTo(_, _, _)
DcgUpTo(ids, relevant, n) ==
    IF n = 0 THEN 0
    ELSE DcgUpTo(ids, relevant, n - 1)
         + (IF ids[n] \in relevant THEN Discount[n] ELSE 0)

dcg(ids, relevant, k) == DcgUpTo(ids, relevant, Min(k, Len(ids)))

\* list(relevant): the set's elements in some iteration order.
RECURSIVE ListOf(_)
ListOf(S) ==
    IF S = {} THEN <<>>
    ELSE LET x == CHOOSE y \in S : TRUE IN <<x>> \o ListOf(S \ {x})

ndcg_at_k(ranked_ids, relevant, k) ==
    LET all == ListOf(relevant)
        ideal == SubSeq(all, 1, Min(k, Len(all)))
        idcg == IF Len(ideal) > 0 THEN dcg(ideal, relevant, k) ELSE 10000
    IN  [num |-> dcg(ranked_ids, relevant, k), den |-> idcg]

\* The loop of mrr_at_k from position i on.
RECURSIVE MrrFrom(_, _, _, _)
MrrFrom(ranked_ids, relevant, k, i) ==
    IF i > Min(k, Len(ranked_ids)) THEN [num |-> 0, den |-> 1]
    ELSE IF ranked_ids[i] \in relevant THEN [num |-> 1, den |-> i]
    ELSE MrrFrom(ranked_ids, relevant, k, i + 1)

\* A mutated mrr_at_k: the ranking is not cut at k.
mrr_at_k_uncut(ranked_ids, relevant, k) ==
    MrrFrom(ranked_ids, relevant, Len(ranked_ids), 1)

mrr_at_k(ranked_ids, relevant, k) == MrrFrom(ranked_ids, relevant, k, 1)

(***************************************************************************)
(* baseline_compare.py: main() and rank_with_savant_api.                   *)
(***************************************************************************)
API == "Savant_RRFSAVANTMADE(API)"

BASELINES == <<"all-MiniLM-L6-v2", "all-mpnet-base-v2">>

\* A float of the summary, in units of 1/10000.
Fixed(frac) == (frac.num * 10000) \div frac.den

RECURSIVE FixedSum(_)
FixedSum(s) == IF Len(s) = 0 THEN 0 ELSE Fixed(s[1]) + FixedSum(Tail(s))

\* float(np.mean(vals)) if vals else 0.0
MeanOrZero(s) == IF Len(s) = 0 THEN 0 ELSE FixedSum(s) \div Len(s)

\* sorted(results, key=rank): a stable sort.
RECURSIVE InsertByRank(_, _)
InsertByRank(s, x) ==
    IF Len(s) = 0 THEN <<x>>
    ELSE IF x.rank < s[1].rank THEN <<x>> \o s
    ELSE <<s[1]>> \o InsertByRank(Tail(s), x)

RECURSIVE SortedByRank(_)
SortedByRank(s) ==
    IF Len(s) = 0 THEN <<>>
    ELSE InsertByRank(SortedByRank(SubSeq(s, 1, Len(s) - 1)), s[Len(s)])

\* The `results` a 200 answer of /v1/rerank may carry for candidates ids: the
\* candidates in order, in reverse order (listed unsorted), one candidate
\* repeated, nothing.
ApiResults(ids) ==
    LET n == Len(ids)
    IN  { [j \in 1..n |-> [id |-> ids[j], rank |-> j]],
          [j \in 1..n |-> [id |-> ids[j], rank |-> n + 1 - j]],
          [j \in 1..n |-> [id |-> ids[1], rank |-> j]],
          <<>> }

\* What SESSION.post can do for a row: 200 with results, 500 with an error
\* body, or raise.
RerankResponses(ids) ==
    { [kind |-> "response", status |-> 200, results |-> r] : r \in ApiResults(ids) }
    \cup { [kind |-> "response", status |-> 500, results |-> <<>>],
           [kind |-> "exception", status |-> -1, results |-> <<>>] }

\* A mutated rank_with_savant_api: the status is not checked.
RerankRaises_unchecked(status) == FALSE

\* rank_with_savant_api: `if status != 200: raise RuntimeError`.
RerankRaises(status) == status # 200

\* rank_with_savant_api past the status check: the ids sorted by rank.
Ranked(results) ==
    LET srt == SortedByRank(results) IN [j \in 1..Len(srt) |-> srt[j].id]

\* rank_with_st for each baseline: the candidates by descending similarity,
\* the similarities being whatever the encoder gives.
Permutations(ids) ==
    { [j \in 1..Len(ids) |-> ids[f[j]]] :
        f \in {g \in [1..Len(ids) -> 1..Len(ids)] :
                  \A a, b \in 1..Len(ids) : a # b => g[a] # g[b]} }

AppendScores(m, ranked, rel) ==
    [ndcg |-> Append(m.ndcg, ndcg_at_k(ranked, rel, 3)),
     mrr |-> Append(m.mrr, mrr_at_k(ranked, rel, 3))]

\* One iteration of `for row in data`.
CmpRow ==
    /\ cpc = "rows"
    /\ ci < Len(data)
    /\ LET row == data[ci + 1]
       IN  \E o \in RerankResponses(row.candidates), dt \in Latencies :
             /\ cmpLog' = Append(cmpLog, [row |-> ci + 1, kind |-> o.kind, status |-> o.status])
             /\ IF o.kind = "exception"
                THEN /\ cpc' = "aborted"
                     /\ cmpErr' = "RequestException"
                     /\ UNCHANGED <<ci, metrics>>
                ELSE IF RerankRaises(o.status)
                THEN /\ cpc' = "aborted"
                     /\ cmpErr' = "RuntimeError"
                     /\ UNCHANGED <<ci, metrics>>
                ELSE \E rk \in [1..Len(BASELINES) -> Permutations(row.candidates)] :
                       /\ metrics' =
                            [name \in DOMAIN metrics |->
                               IF name = API
                               THEN [ndcg |-> Append(metrics[API].ndcg,
                                                 ndcg_at_k(Ranked(o.results), row.relevant, 3)),
                                     mrr |-> Append(metrics[API].mrr,
                                                 mrr_at_k(Ranked(o.results), row.relevant, 3)),
                                     latency_s |-> Append(metrics[API].latency_s, dt)]
                               ELSE LET b == CHOOSE j \in 1..Len(BASELINES) : BASELINES[j] = name
                                    IN  AppendScores(metrics[name], rk[b], row.relevant)]
                       /\ ci' = ci + 1
                       /\ UNCHANGED <<cpc, cmpErr>>
    /\ UNCHANGED <<data, cmpOut>>
    /\ UNCHANGED <<runnerVars, dashVars, fnVars>>

\* summary[name] for one ranker.
SummaryOf(name, vals) ==
    IF name = API
    THEN [ndcg_mean |-> MeanOrZero(vals.ndcg),
          mrr_mean |-> MeanOrZero(vals.mrr),
          latency_mean_s |-> ArrMean(vals.latency_s),
          latency_p95_s |-> IF Len(vals.latency_s) > 0
                            THEN Quantile(vals.latency_s, 95) ELSE <<0>>]
    ELSE [ndcg_mean |-> MeanOrZero(vals.ndcg),
          mrr_mean |-> MeanOrZero(vals.mrr)]

\* main() after the loop: the summary, baseline_compare.json and the print.
CmpSummary ==
    /\ cpc = "rows"
    /\ ci = Len(data)
    /\ cmpOut' = << [N_queries |-> Len(data),
                     metrics |-> [name \in DOMAIN metrics |-> SummaryOf(name, metrics[name])]] >>
    /\ cpc' = "done"
    /\ UNCHANGED <<data, ci, metrics, cmpLog, cmpErr>>
    /\ UNCHANGED <<runnerVars, dashVars, fnVars>>

CmpNext ==
    \/ CmpRow
    \/ CmpSummary

(***************************************************************************)
(* make_dashboard.py: the history kept by main().                          *)
(***************************************************************************)
HISTORY_CAP == 200

\* A mutated trim: history[:200], the oldest entries kept.
KeepLast_first(h, n) == IF Len(h) <= n THEN h ELSE SubSeq(h, 1, n)

\* history[-n:]
KeepLast(h, n) == IF Len(h) <= n THEN h ELSE SubSeq(h, Len(h) - n + 1, Len(h))

\* history as main() loads it: [] when history.json is missing or empty.
LoadHistory == IF histFile.exists THEN histFile.content ELSE <<>>

\* One run of main(): load, append the entry, keep the last 200, write.
\* The stamp stands for (stamp, run_id, sha): it tells the runs apart.
DashboardRun ==
    /\ runs < MaxRuns
    /\ LET entry == [stamp |-> runs + 1, pass |-> gateJson]
       IN  /\ histFile' = [exists |-> TRUE,
                           content |-> KeepLast(Append(LoadHistory, entry), HISTORY_CAP)]
           /\ lastEntry' = <<entry>>
    /\ runs' = runs + 1
    /\ UNCHANGED gateJson
    /\ UNCHANGED <<runnerVars, cmpVars, fnVars>>

DashNext == DashboardRun

(***************************************************************************)
(* The pure functions, applied to drawn inputs.                            *)
(***************************************************************************)
\* fnOut.v = gate(thresholds, smoke, bench, using_fallback)
ApplyGate ==
    /\ Len(fnOut) = 0
    /\ fnOut' = << gate(fnIn.thr, fnIn.sm, fnIn.bn, fnIn.fb) >>
    /\ UNCHANGED fnIn
    /\ UNCHANGED <<runnerVars, cmpVars, dashVars>>

GateNext == ApplyGate

ApplyNdcg ==
    /\ Len(fnOut.ndcg) = 0
    /\ fnOut' = [fnOut EXCEPT !.ndcg = << ndcg_at_k(fnIn.R, fnIn.S, fnIn.k) >>]
    /\ UNCHANGED fnIn
    /\ UNCHANGED <<runnerVars, cmpVars, dashVars>>

ApplyMrr ==
    /\ Len(fnOut.mrr) = 0
    /\ fnOut' = [fnOut EXCEPT !.mrr = << mrr_at_k(fnIn.R, fnIn.S, fnIn.k) >>]
    /\ UNCHANGED fnIn
    /\ UNCHANGED <<runnerVars, cmpVars, dashVars>>

MetricsNext ==
    \/ ApplyNdcg
    \/ ApplyMrr

(***************************************************************************)
(* Initial states.                                                         *)
(***************************************************************************)
RunnerLocalsFresh ==
    /\ idx = 0
    /\ rows = <<>>
    /\ wire = <<>>
    /\ ok = 0
    /\ errors = 0
    /\ lat = <<>>
    /\ bench = <<>>
    /\ decision = <<>>
    /\ files = {}
    /\ stdout = <<>>
    /\ exitCode = <<>>
    /\ abortReason = ""

\* The runner is not part of the specification at hand.
RunnerIdle ==
    /\ pc = "idle"
    /\ thresholds = ThresholdsFile(100, <<>>, 0, 100, 0, 0)
    /\ N_BENCH = 0
    /\ FALLBACK_USED = FALSE
    /\ smoke = <<>>
    /\ hard = <<>>
    /\ netlog = <<>>
    /\ RunnerLocalsFresh

\* The requests smoke_tests and hardening_evaluate have issued when they return.
PhasesLog ==
    [j \in 1..(Len(SMOKE_TESTS) + Len(HARDENING_CASES)) |->
        IF j <= Len(SMOKE_TESTS)
        THEN Request("smoke", SMOKE_TESTS[j].method, SMOKE_TESTS[j].path)
        ELSE Request("hard", "POST", "/evaluate")]

\* main() after thresholds.json is loaded, about to call smoke_tests().
InitMain ==
    /\ pc = "smoke"
    /\ thresholds \in {ThresholdsFile(150, p99, 0, 75, 0, 0) : p99 \in {<<>>, <<150>>}}
    /\ N_BENCH \in 0..MaxNMain
    /\ FALLBACK_USED \in BOOLEAN
    /\ smoke = <<>>
    /\ hard = <<>>
    /\ netlog = <<>>
    /\ RunnerLocalsFresh

\* main() about to call benchmark_evaluate(), smoke and hardening having returned.
InitBench ==
    /\ pc = "bench"
    /\ thresholds \in {ThresholdsFile(150, <<150>>, 0, 75, w, d) :
                          w \in 0..MaxWarmup, d \in 0..MaxDiscard}
    /\ N_BENCH \in 0..MaxN
    /\ FALLBACK_USED = FALSE
    /\ smoke \in {<<SmokeOut(k)>> : k \in {0, Len(SMOKE_TESTS)}}
    /\ hard = <<HardeningOut(0)>>
    /\ netlog = PhasesLog
    /\ RunnerLocalsFresh

CmpIdle ==
    /\ cpc = "idle"
    /\ data = <<>>
    /\ ci = 0
    /\ metrics = <<>>
    /\ cmpLog = <<>>
    /\ cmpOut = <<>>
    /\ cmpErr = ""

DashIdle ==
    /\ histFile = [exists |-> FALSE, content |-> <<>>]
    /\ runs = 0
    /\ gateJson = <<>>
    /\ lastEntry = <<>>

FnIdle ==
    /\ fnIn = <<>>
    /\ fnOut = <<>>

\* Candidate ids and the ids a ranking may hold ("Z" is no candidate).
CandidateIds == <<"A", "B">>

Ids == {"A", "B", "Z"}

RECURSIVE SeqsUpTo(_, _)
SeqsUpTo(S, n) ==
    IF n = 0 THEN {<<>>}
    ELSE LET shorter == SeqsUpTo(S, n - 1)
         IN  shorter \cup {Append(q, x) : q \in {r \in shorter : Len(r) = n - 1}, x \in S}

\* Dataset rows: query and candidate texts are opaque to the comparator.
RowPool ==
    { [candidates |-> CandidateIds, relevant |-> rel] : rel \in {{"B"}, {}} }

\* baseline_compare.main() after the dataset and the baselines are loaded.
InitCmp ==
    /\ cpc = "rows"
    /\ data \in SeqsUpTo(RowPool, MaxRows)
    /\ ci = 0
    /\ metrics = [name \in {API} \cup {BASELINES[j] : j \in 1..Len(BASELINES)} |->
                    IF name = API
                    THEN [ndcg |-> <<>>, mrr |-> <<>>, latency_s |-> <<>>]
                    ELSE [ndcg |-> <<>>, mrr |-> <<>>]]
    /\ cmpLog = <<>>
    /\ cmpOut = <<>>
    /\ cmpErr = ""

\* make_dashboard.main() has never run: history.json is missing, or empty.
InitDash ==
    /\ histFile \in {[exists |-> e, content |-> <<>>] : e \in BOOLEAN}
    /\ runs = 0
    /\ gateJson \in {<<>>, <<TRUE>>, <<FALSE>>}
    /\ lastEntry = <<>>

\* Inputs of gate(): thresholds, a smoke result, a benchmark result.
InitGate ==
    /\ fnIn \in { [thr |-> ThresholdsFile(p95, p99, err, minok, 0, 0),
                   sm |-> SmokeOut(k), bn |-> BenchOut(arr, e, Len(arr)), fb |-> fb] :
                   p95 \in {100, 200}, p99 \in {<<>>, <<100>>, <<200>>},
                   err \in {0, 50}, minok \in {75, 100},
                   k \in {Len(SMOKE_TESTS) - 1, Len(SMOKE_TESTS)},
                   arr \in SeqsUpTo(Latencies, MaxN) \ {<<>>}, e \in {0, 1},
                   fb \in BOOLEAN }
    /\ fnOut = <<>>

\* Inputs of ndcg_at_k and mrr_at_k: a ranking, a relevant set, a cut-off.
InitMetrics ==
    /\ fnIn \in { [R |-> R, S |-> S, k |-> k] :
                   R \in SeqsUpTo(Ids, MaxLen), S \in SUBSET Ids, k \in 1..MaxK }
    /\ fnOut = [ndcg |-> <<>>, mrr |-> <<>>]

BenchNext ==
    \/ BenchRequest
    \/ BenchReduce
    \/ Gate
    \/ WriteArtifacts
    \/ EmitVerdict
    \/ ExitDecision

MainInit == InitMain /\ CmpIdle /\ DashIdle /\ FnIdle

BenchInit == InitBench /\ CmpIdle /\ DashIdle /\ FnIdle

CmpInit == RunnerIdle /\ InitCmp /\ DashIdle /\ FnIdle

DashInit == RunnerIdle /\ CmpIdle /\ InitDash /\ FnIdle

GateInit == RunnerIdle /\ CmpIdle /\ DashIdle /\ InitGate

MetricsInit == RunnerIdle /\ CmpIdle /\ DashIdle /\ InitMetrics

\* A whole run of savant_lab_runner.main().
SpecMain == MainInit /\ [][RunnerNext]_vars

\* savant_lab_runner.main() from its call of benchmark_evaluate() on.
SpecBench == BenchInit /\ [][BenchNext]_vars

\* A run of baseline_compare.main().
SpecCmp == CmpInit /\ [][CmpNext]_vars

\* Successive runs of make_dashboard.main().
SpecDash == DashInit /\ [][DashNext]_vars

\* gate() on drawn inputs.
SpecGate == GateInit /\ [][GateNext]_vars

\* ndcg_at_k and mrr_at_k on drawn inputs.
SpecMetrics == MetricsInit /\ [][MetricsNext]_vars

(***************************************************************************)
(* The claims.                                                             *)
(***************************************************************************)
NotOk(o) == ~(o.kind = "response" /\ o.status = 200)

Failures(w) == Cardinality({j \in 1..Len(w) : NotOk(w[j])})

\* Two means (NaN or a fraction) are the same number.
SameMean(x, y) ==
    /\ Len(x) = Len(y)
    /\ Len(x) = 1 => x[1].num * y[1].den = y[1].num * x[1].den

\* C1: gate() evaluates four criteria (p95, p99 when p99_s_max is configured,
\* error rate, smoke ok rate) and verdict.pass is the AND of the four; a p99
\* above a configured p99_s_max never passes.
C1_PassIsAndOfFour ==
    Len(fnOut) = 1 =>
        LET thr == fnIn.thr
            bn == fnIn.bn
            p95_ok == FloatLe(bn.p95_s, thr.p95_s_max)
            p99_ok == IF "p99_s_max" \in DOMAIN thr
                      THEN FloatLe(bn.p99_s, thr.p99_s_max) ELSE TRUE
            err_ok == RateLe(bn.error_rate, thr.error_rate_max)
            smoke_ok == RateGe(fnIn.sm.ok_rate, thr.min_ok_rate_smoke)
        IN  fnOut[1].pass = (p95_ok /\ p99_ok /\ err_ok /\ smoke_ok)

\* C2: with 0 < D < N, the latency distribution is computed over the last
\* N - D samples, errors and error_rate over all N requests.
C2_DistributionOverRetainedTail ==
    (Len(bench) = 1 /\ 0 < thresholds.discard_first_n
                    /\ thresholds.discard_first_n < N_BENCH) =>
        LET kept == SubSeq(lat, thresholds.discard_first_n + 1, N_BENCH)
            b == bench[1]
        IN  /\ b.p50_s = Quantile(kept, 50)
            /\ b.p95_s = Quantile(kept, 95)
            /\ b.p99_s = Quantile(kept, 99)
            /\ b.min_s = ArrMin(kept)
            /\ SameMean(b.mean_s, ArrMean(kept))
            /\ b.max_s = ArrMax(kept)
            /\ b.errors = Failures(wire)
            /\ b.error_rate = [num |-> Failures(wire), den |-> N_BENCH]

\* C3: exactly W warmup requests are issued before the first measured request,
\* and none of them contributes to the samples, the error count or the rate.
C3_WarmupBeforeMeasured ==
    Len(bench) = 1 =>
        LET warm == {j \in 1..Len(netlog) : netlog[j].phase = "warmup"}
            meas == {j \in 1..Len(netlog) : netlog[j].phase = "bench"}
        IN  /\ Cardinality(warm) = thresholds.warmup_requests
            /\ \A a \in warm, b \in meas : a < b
            /\ Cardinality(meas) = N_BENCH
            /\ Len(lat) = N_BENCH
            /\ bench[1].errors = Failures(wire)

\* C4: once the gate is evaluated, gate.json is written and the verdict printed
\* before the exit decision; the exit code is non-zero exactly when pass is
\* false and the fallback base URL is not in use.
C4_VerdictThenExit ==
    /\ pc \in {"exit", "done"} =>
          /\ Len(decision) = 1
          /\ "gate.json" \in files
          /\ stdout = <<decision[1]>>
    /\ Len(exitCode) = 1 => pc \in {"done", "aborted"}
    /\ pc = "done" =>
          /\ Len(exitCode) = 1
          /\ exitCode[1] \in {0, 1}
          /\ (exitCode[1] # 0) <=> (~decision[1].pass /\ ~FALLBACK_USED)

C4_Witness ==
    /\ pc = "done"
    /\ ~decision[1].pass
    /\ FALLBACK_USED
    /\ exitCode = <<0>>
    /\ "gate.json" \in files

\* C5: a non-200 answer to the rerank request of a row aborts the comparator at
\* that row: no later row is requested, no row is skipped, no summary is written.
C5_FailFast ==
    /\ \A j \in 1..Len(cmpLog) :
          /\ cmpLog[j].row = j
          /\ (cmpLog[j].kind = "response" /\ cmpLog[j].status # 200) =>
                /\ j = Len(cmpLog)
                /\ cpc = "aborted"
                /\ cmpErr = "RuntimeError"
                /\ cmpOut = <<>>
                /\ ci = j - 1
    /\ Len(cmpOut) = 1 =>
          /\ Len(cmpLog) = Len(data)
          /\ \A j \in 1..Len(cmpLog) : ~NotOk(cmpLog[j])
          /\ \A name \in DOMAIN metrics : Len(metrics[name].ndcg) = Len(data)

C5_Witness ==
    /\ cpc = "aborted"
    /\ cmpErr = "RuntimeError"
    /\ Len(cmpLog) = 2
    /\ cmpLog[2].status = 500
    /\ Len(metrics[API].ndcg) = 1
    /\ cmpOut = <<>>

\* The requests a whole run issues, in order.
ExpectedLog ==
    PhasesLog \o [j \in 1..N_BENCH |-> Request("bench", "POST", "/evaluate")]

\* C6: in the smoke, hardening and benchmark phases a transport failure comes
\* back as the sentinel status 0, never as an exception, is counted like a
\* non-200 answer, and every request of the phase is issued once, in order.
C6_TransportFailureIsSentinel ==
    /\ abortReason # "RequestException"
    /\ Len(netlog) <= Len(ExpectedLog)
    /\ \A j \in 1..Len(netlog) : netlog[j] = ExpectedLog[j]
    /\ pc = "smoke" => Len(netlog) = idx
    /\ pc = "hard" => Len(netlog) = Len(SMOKE_TESTS) + idx
    /\ pc = "bench" => Len(netlog) = Len(PhasesLog) + idx
    /\ Len(bench) = 1 => Len(netlog) = Len(ExpectedLog)
    /\ Len(wire) = idx
    /\ pc \in {"smoke", "hard"} =>
          /\ Len(rows) = idx
          /\ \A j \in 1..idx :
                rows[j].status = IF wire[j].kind = "exception" THEN 0 ELSE wire[j].status
    /\ pc = "smoke" => ok = idx - Failures(wire)
    /\ pc = "hard" => errors = Failures(wire)
    /\ pc = "hard" => smoke[1].total = Len(SMOKE_TESTS)
    /\ pc \notin {"smoke", "hard"} =>
          /\ errors = Failures(wire)
          /\ Len(lat) = idx
          /\ hard[1].N = Len(HARDENING_CASES)
    /\ Len(bench) = 1 =>
          /\ bench[1].errors = Failures(wire)
          /\ bench[1].N = N_BENCH
          /\ idx = N_BENCH

C6_Witness ==
    /\ pc = "done"
    /\ N_BENCH >= 1
    /\ wire[1].kind = "exception"
    /\ bench[1].errors = N_BENCH
    /\ smoke[1].ok < smoke[1].total
    /\ hard[1].errors > 0

\* C7: the history holds at most 200 entries, its last entry is the one the
\* most recent run appended, the entries are in append order, and only the
\* oldest entries are ever evicted.
C7_HistoryBounded ==
    LET h == histFile.content
        n == Len(h)
    IN  /\ n <= 200
        /\ n = Min(runs, 200)
        /\ runs > 0 => (histFile.exists /\ h[n] = lastEntry[1])
        /\ \A j \in 1..n : h[j].stamp = runs - n + j

C7_Witness ==
    /\ runs > 201
    /\ Len(histFile.content) = 200
    /\ histFile.content[1].stamp = runs - 199

\* C8: for every ranking (repeated or foreign ids included), non-empty relevant
\* set and k >= 1, ndcg_at_k is in [0,1], and it is 1 when the first min(k,|S|)
\* entries of the ranking are an ordering of relevant ids.
C8_NdcgInUnitInterval ==
    (Len(fnOut.ndcg) = 1 /\ fnIn.S # {}) =>
        LET v == fnOut.ndcg[1]
            R == fnIn.R
            m == Min(fnIn.k, Cardinality(fnIn.S))
            optimal == /\ Len(R) >= m
                       /\ \A a \in 1..m : R[a] \in fnIn.S
                       /\ \A a, b \in 1..m : a # b => R[a] # R[b]
        IN  /\ v.den > 0
            /\ 0 <= v.num
            /\ v.num <= v.den
            /\ optimal => v.num = v.den

\* C9: mrr_at_k is 0 exactly when no relevant id is in the first k positions;
\* otherwise it is 1 over the position of the first relevant id of the ranking.
C9_MrrFirstHit ==
    Len(fnOut.mrr) = 1 =>
        LET v == fnOut.mrr[1]
            R == fnIn.R
            hitsInK == {a \in 1..Len(R) : a <= fnIn.k /\ R[a] \in fnIn.S}
            hits == {a \in 1..Len(R) : R[a] \in fnIn.S}
        IN  /\ (v.num = 0) <=> (hitsInK = {})
            /\ hitsInK # {} =>
                  /\ v.num = 1
                  /\ v.den \in hits
                  /\ \A a \in hits : v.den <= a

C9_Witness ==
    /\ Len(fnOut.mrr) = 1
    /\ fnIn.k = 2
    /\ Len(fnIn.R) = 3
    /\ fnIn.R[1] \notin fnIn.S
    /\ fnIn.R[2] \notin fnIn.S
    /\ fnIn.R[3] \in fnIn.S
    /\ fnOut.mrr[1].num = 0

\* C10: with N_BENCH = 0 the benchmark aborts the run: it returns no latency
\* distribution, and no gate verdict is computed, written or printed.
C10_ZeroSamplesAborts ==
    N_BENCH = 0 =>
        /\ pc \in {"smoke", "hard", "bench", "aborted"}
        /\ bench = <<>>
        /\ decision = <<>>
        /\ "gate.json" \notin files
        /\ stdout = <<>>
        /\ pc = "aborted" =>
              /\ abortReason \in {"IndexError", "ValueError"}
              /\ exitCode = <<1>>
              /\ Len(netlog) = Len(PhasesLog)

C10_Witness ==
    /\ N_BENCH = 0
    /\ pc = "aborted"
    /\ abortReason = "ValueError"
    /\ bench = <<>>
====
